---- MODULE Spec2Model ----
(***************************************************************************)
(* The task-management JSON API of app/routes.py as a state machine.       *)
(*                                                                         *)
(* State: the three tables (users, categories, tasks), the cookie session  *)
(* of every client, the wall clock, the position of every client inside    *)
(* the handler it is running together with the locals of that handler,     *)
(* and the last request that returned together with its response.          *)
(*                                                                         *)
(* A handler is one step per round trip to the database: a handler that    *)
(* reads or writes once is one action, the others (register,               *)
(* create_category, delete_category, create_task, update_task,             *)
(* delete_task, get_stats) are one action per query, commit or reload of a *)
(* row after its commit.  Under Spec, SpecTasks, SpecList, SpecStats and SpecFields one  *)
(* browser sends its requests one at a time, as the test client does;      *)
(* under SpecConc and SpecRace the steps of two browsers interleave.       *)
(***************************************************************************)
EXTENDS Integers, Sequences, FiniteSets, TLC

VARIABLES users, categories, tasks, session, now, pc, frame, last

vars == <<users, categories, tasks, session, now, pc, frame, last>>

-----------------------------------------------------------------------------
(* Bounds of the model.                                                    *)

MaxUsers == 2
MaxCategories == 5
MaxTasks == 1
MaxTicks == 1
MaxListed == 2
MaxCounted == 4

-----------------------------------------------------------------------------
(* JSON values.  A request body is a record of the keys it carries: a key  *)
(* it does not carry is not in its DOMAIN.  A value that may be null       *)
(* (category_id, due_date) is Null or Some(v), here and in the tables.     *)
(* A text the handlers compute on (title, description, search, a date, a   *)
(* number of the query string) is the sequence of its code points; the     *)
(* other strings are only compared and stored.                             *)

Null == <<>>

Some(v) == <<v>>

\* 'key' in data
Has(data, key) == key \in DOMAIN data

\* data.get(key, default)
Get(data, key, default) == IF Has(data, key) THEN data[key] ELSE default

Clients == {"c1", "c2"}

-----------------------------------------------------------------------------
(* Characters.                                                             *)

\* The code points of the digit zero of every script (Unicode 14, category
\* Nd); the nine that follow each are its digits one to nine.
DigitZeros ==
    {48, 1632, 1776, 1984, 2406, 2534, 2662, 2790, 2918, 3046, 3174, 3302, 3430,
     3558, 3664, 3792, 3872, 4160, 4240, 6112, 6160, 6470, 6608, 6784, 6800, 6992,
     7088, 7232, 7248, 42528, 43216, 43264, 43472, 43504, 43600, 44016, 65296,
     66720, 68912, 69734, 69872, 69942, 70096, 70384, 70736, 70864, 71248, 71360,
     71472, 71904, 72016, 72784, 73040, 73120, 92768, 92864, 93008, 120782, 120792,
     120802, 120812, 120822, 123200, 123632, 125264, 130032}

\* The code points str.isspace() holds of.
Spaces ==
    {9, 10, 11, 12, 13, 28, 29, 30, 31, 32, 133, 160, 5760, 8192, 8193, 8194, 8195,
     8196, 8197, 8198, 8199, 8200, 8201, 8202, 8232, 8233, 8239, 8287, 12288}

Hyphen == 45

Plus == 43

Underscore == 95

Percent == 37

Blank == 32

Zero == 48

\* \d of a regular expression: a decimal digit of any script.
IsDigit(ch) == ch \in Zero..(Zero + 9) \/ \E z \in DigitZeros : ch - z \in 0..9

\* int() of a decimal digit.
DigitVal(ch) ==
    IF ch \in Zero..(Zero + 9) THEN ch - Zero
    ELSE ch - (CHOOSE z \in DigitZeros : ch - z \in 0..9)

\* [a-b] of a regular expression, a and b ASCII digits.
InRange(ch, a, b) == ch \in (Zero + a)..(Zero + b)

-----------------------------------------------------------------------------
(* datetime.strptime(s, '%Y-%m-%d') and the rendering of a stored date.    *)

IsLeap(y) == (y % 4 = 0) /\ ((y % 100 # 0) \/ (y % 400 = 0))

DaysInMonth(y, m) ==
    IF m = 2 THEN (IF IsLeap(y) THEN 29 ELSE 28)
    ELSE IF m \in {4, 6, 9, 11} THEN 30 ELSE 31

\* The characters the directive %m can take at position i of s: the regular
\* expression 1[0-2]|0[1-9]|[1-9], alternatives in this order.
MonthWidths(s, i) ==
    LET one == i <= Len(s)
        two == i + 1 <= Len(s)
    IN  (IF two /\ s[i] = Zero + 1 /\ InRange(s[i + 1], 0, 2) THEN <<2>> ELSE <<>>)
        \o (IF two /\ s[i] = Zero /\ InRange(s[i + 1], 1, 9) THEN <<2>> ELSE <<>>)
        \o (IF one /\ InRange(s[i], 1, 9) THEN <<1>> ELSE <<>>)

\* The characters the directive %d can take at position i of s: the regular
\* expression 3[0-1]|[1-2]\d|0[1-9]|[1-9]| [1-9], alternatives in this order.
DayWidths(s, i) ==
    LET one == i <= Len(s)
        two == i + 1 <= Len(s)
    IN  (IF two /\ s[i] = Zero + 3 /\ InRange(s[i + 1], 0, 1) THEN <<2>> ELSE <<>>)
        \o (IF two /\ InRange(s[i], 1, 2) /\ IsDigit(s[i + 1]) THEN <<2>> ELSE <<>>)
        \o (IF two /\ s[i] = Zero /\ InRange(s[i + 1], 1, 9) THEN <<2>> ELSE <<>>)
        \o (IF one /\ InRange(s[i], 1, 9) THEN <<1>> ELSE <<>>)
        \o (IF two /\ s[i] = Blank /\ InRange(s[i + 1], 1, 9) THEN <<2>> ELSE <<>>)

\* int() of the w characters of s at position i (digits, or a blank and a
\* digit).
NumberAt(s, i, w) ==
    IF w = 1 THEN DigitVal(s[i])
    ELSE IF s[i] = Blank THEN DigitVal(s[i + 1])
    ELSE 10 * DigitVal(s[i]) + DigitVal(s[i + 1])

NoDate == <<>>

\* strptime: <<year, month, day>>, or NoDate where Python raises ValueError
\* (no match of the format, unconverted data, year 0, day out of range).
strptime(s) ==
    IF ~(Len(s) >= 6 /\ \A i \in 1..4 : IsDigit(s[i])) \/ s[5] # Hyphen THEN NoDate
    ELSE
      LET y  == 1000 * DigitVal(s[1]) + 100 * DigitVal(s[2])
                + 10 * DigitVal(s[3]) + DigitVal(s[4])
          \* the first month alternative after which the '-' follows
          mw == SelectSeq(MonthWidths(s, 6),
                          LAMBDA w : 6 + w <= Len(s) /\ s[6 + w] = Hyphen)
      IN  IF mw = <<>> THEN NoDate
          ELSE
            LET m  == NumberAt(s, 6, mw[1])
                di == 6 + mw[1] + 1
                dw == DayWidths(s, di)
            IN  IF dw = <<>> THEN NoDate
                ELSE IF di + dw[1] - 1 # Len(s) THEN NoDate
                ELSE
                  LET d == NumberAt(s, di, dw[1])
                  IN  IF y < 1 \/ d > DaysInMonth(y, m) THEN NoDate
                      ELSE <<y, m, d>>

\* A stored date rendered as year-month-day, zero padded.
strftime(date) ==
    LET y == date[1]
        m == date[2]
        d == date[3]
    IN  << Zero + ((y \div 1000) % 10), Zero + ((y \div 100) % 10),
           Zero + ((y \div 10) % 10), Zero + (y % 10), Hyphen,
           Zero + (m \div 10), Zero + (m % 10), Hyphen,
           Zero + (d \div 10), Zero + (d % 10) >>

\* Days from 0001-01-01 to the date, as date.toordinal().
toordinal(date) ==
    LET y  == date[1] - 1
        RECURSIVE before(_)
        before(m) == IF m = 1 THEN 0
                     ELSE before(m - 1) + DaysInMonth(date[1], m - 1)
    IN  y * 365 + (y \div 4) - (y \div 100) + (y \div 400)
        + before(date[2]) + date[3]

\* The instant of a stored date (midnight), in half days: the clock `now`
\* is in the same unit, so that it can stand on a midnight or after it.
Instant(date) == 2 * toordinal(date)

-----------------------------------------------------------------------------
(* int(s) of a text of the query string.                                   *)

\* The characters int() strips from both ends: the white space of Unicode
\* but for the ASCII separators 28 to 31.
IntSpaces == Spaces \ {28, 29, 30, 31}

RECURSIVE StripLeft(_)
StripLeft(s) ==
    IF s # <<>> /\ s[1] \in IntSpaces THEN StripLeft(Tail(s)) ELSE s

RECURSIVE StripRight(_)
StripRight(s) ==
    IF s # <<>> /\ s[Len(s)] \in IntSpaces THEN StripRight(SubSeq(s, 1, Len(s) - 1))
    ELSE s

\* Digits of any script, single underscores between them.
RECURSIVE IsNumeral(_, _)
IsNumeral(s, afterDigit) ==
    IF s = <<>> THEN afterDigit
    ELSE IF s[1] = Underscore THEN afterDigit /\ IsNumeral(Tail(s), FALSE)
    ELSE IsDigit(s[1]) /\ IsNumeral(Tail(s), TRUE)

RECURSIVE NumeralValue(_, _)
NumeralValue(s, n) ==
    IF s = <<>> THEN n
    ELSE IF s[1] = Underscore THEN NumeralValue(Tail(s), n)
    ELSE NumeralValue(Tail(s), 10 * n + DigitVal(s[1]))

\* int(s): Some(n), or Null where Python raises ValueError.
int(s) ==
    LET t      == StripRight(StripLeft(s))
        signed == t # <<>> /\ t[1] \in {Plus, Hyphen}
        digits == IF signed THEN Tail(t) ELSE t
    IN  IF ~IsNumeral(digits, FALSE) THEN Null
        ELSE IF signed /\ t[1] = Hyphen THEN Some(0 - NumeralValue(digits, 0))
        ELSE Some(NumeralValue(digits, 0))

-----------------------------------------------------------------------------
(* column.ilike('%' + search + '%'): lower(column) LIKE lower(pattern),    *)
(* as the database of the tests (SQLite) computes it.                      *)

\* lower(): the ASCII letters only.
lower(s) == [i \in 1..Len(s) |-> IF s[i] \in 65..90 THEN s[i] + 32 ELSE s[i]]

\* The text up to its first U+0000: LIKE reads its operands as strings
\* that end there.
RECURSIVE UpToNul(_)
UpToNul(s) ==
    IF s = <<>> \/ s[1] = 0 THEN <<>> ELSE <<s[1]>> \o UpToNul(Tail(s))

\* The matching of LIKE: % stands for any text, _ for any one character.
RECURSIVE patternCompare(_, _)
patternCompare(text, pattern) ==
    IF pattern = <<>> THEN text = <<>>
    ELSE IF pattern[1] = Percent
    THEN \/ patternCompare(text, Tail(pattern))
         \/ (text # <<>> /\ patternCompare(Tail(text), pattern))
    ELSE /\ text # <<>>
         /\ pattern[1] = Underscore \/ pattern[1] = text[1]
         /\ patternCompare(Tail(text), Tail(pattern))

\* text LIKE pattern
like(text, pattern) == patternCompare(UpToNul(text), UpToNul(pattern))

ilike(text, search) ==
    like(lower(text), lower(<<Percent>> \o search \o <<Percent>>))

-----------------------------------------------------------------------------
(* round(completed / total * 100, 1) in binary floating point (IEEE 754    *)
(* double: 53 significant bits, round to nearest, ties to even).  A        *)
(* significand is five limbs of LimbBits bits, the least significant       *)
(* first: the top limb of a 53-bit significand is 1.                       *)

LimbBits == 13

Limbs == 5

Limb == 2^LimbBits

\* The limbs of a sum whose limbs were added one by one: the carries go up.
RECURSIVE Carried(_, _)
Carried(raw, carry) ==
    IF raw = <<>> THEN <<>>
    ELSE <<(raw[1] + carry) % Limb>> \o Carried(Tail(raw), (raw[1] + carry) \div Limb)

\* a * k and a + 1.
Times(a, k) == Carried([i \in 1..Limbs |-> a[i] * k], 0)

Increment(a) == Carried([a EXCEPT ![1] = @ + 1], 0)

\* a shifted right by n bits, 0 < n < LimbBits.
ShiftRight(a, n) ==
    [i \in 1..Limbs |->
        (a[i] \div 2^n)
        + (IF i < Limbs THEN (a[i + 1] % 2^n) * 2^(LimbBits - n) ELSE 0)]

\* Bit g of a, bit 0 the lowest.
BitAt(a, g) ==
    IF g >= Limbs * LimbBits THEN 0
    ELSE (a[(g \div LimbBits) + 1] \div 2^(g % LimbBits)) % 2

\* Some bit of a below bit g is set.
AnyBelow(a, g) ==
    \E i \in 1..Limbs :
        IF LimbBits * i <= g THEN a[i] # 0
        ELSE IF LimbBits * (i - 1) < g THEN a[i] % 2^(g - LimbBits * (i - 1)) # 0
        ELSE FALSE

\* The number made of bit g of a and the bits above it.
RECURSIVE Above(_, _, _)
Above(a, g, i) ==
    IF i > Limbs THEN 0
    ELSE IF LimbBits * i <= g \/ a[i] = 0 THEN Above(a, g, i + 1)
    ELSE IF LimbBits * (i - 1) <= g
         THEN (a[i] \div 2^(g - LimbBits * (i - 1))) + Above(a, g, i + 1)
    ELSE a[i] * 2^(LimbBits * (i - 1) - g) + Above(a, g, i + 1)

\* What is left of r * Limb^j after the division by t.
RECURSIVE Remainder(_, _, _)
Remainder(r, t, j) == IF j = 0 THEN r ELSE (Remainder(r, t, j - 1) * Limb) % t

\* The significand `high` rounded on the bits dropped below it: guard is the
\* first dropped bit, sticky says that a later one is set.  up is 1 when the
\* rounding carried into one more bit.
RoundToEven(high, guard, sticky) ==
    IF guard = 1 /\ (sticky \/ high[1] % 2 = 1)
    THEN IF Increment(high)[Limbs] = 2
         THEN [bits |-> <<0, 0, 0, 0, 1>>, up |-> 1]
         ELSE [bits |-> Increment(high), up |-> 0]
    ELSE [bits |-> high, up |-> 0]

\* Round1 dropping the digits after the first decimal.
Round1_Truncates(completed, total) == (completed * 1000) \div total

\* round(completed / total * 100, 1), in tenths of a percent, for
\* 0 <= completed < 2^18 and 0 < total < 2^18.
Round1(completed, total) ==
    IF completed = 0 THEN 0
    ELSE
    LET \* completed / total = (numer / denom) * 2^(down - scale), the
        \* quotient numer / denom from 1 to 2
        scale   == CHOOSE i \in 0..18 : /\ completed * 2^i >= total
                                        /\ (i = 0 \/ completed * 2^(i - 1) < total)
        down    == CHOOSE k \in 0..18 : /\ total * 2^k <= completed * 2^scale
                                        /\ completed * 2^scale < total * 2^(k + 1)
        denom   == total * 2^down
        first   == completed * 2^scale - denom
        left    == 2 * Remainder(first, denom, Limbs - 1)
        \* completed / total
        ratio   == RoundToEven(
                       [i \in 1..Limbs |->
                           IF i = Limbs THEN 1
                           ELSE (Remainder(first, denom, Limbs - 1 - i) * Limb) \div denom],
                       IF left >= denom THEN 1 ELSE 0, left > denom)
        \* ... * 100
        product == Times(ratio.bits, 100)
        dropped == IF product[Limbs] >= 128 THEN 7 ELSE 6
        percent == RoundToEven(ShiftRight(product, dropped), BitAt(product, dropped - 1),
                               AnyBelow(product, dropped - 1))
        \* round(..., 1): the tenths, the half way case to the even tenth
        tenfold == Times(percent.bits, 10)
        point   == (4 * LimbBits) + (scale - down - ratio.up) - (dropped + percent.up)
        whole   == Above(tenfold, point, 1)
    IN  IF BitAt(tenfold, point - 1) = 1 /\ (AnyBelow(tenfold, point - 1) \/ whole % 2 = 1)
        THEN whole + 1
        ELSE whole

-----------------------------------------------------------------------------
(* The tables.  A row is a record; the primary key of a new row is the     *)
(* largest key of the table plus one (SQLite's rowid rule).                *)

NextId(rows) ==
    IF rows = {} THEN 1
    ELSE (CHOOSE i \in {r.id : r \in rows} : \A r \in rows : r.id <= i) + 1

\* User.set_password stores a hash, never the password itself.
generate_password_hash(pw) == <<"hash", pw>>

\* User.check_password
check_password(user, pw) == user.password_hash = generate_password_hash(pw)

\* Task.to_dict: the persisted attributes by name, the due date rendered.
task_to_dict(t) ==
    [id |-> t.id, title |-> t.title, description |-> t.description,
     status |-> t.status, priority |-> t.priority,
     category_id |-> t.category_id,
     due_date |-> IF t.due_date = Null THEN Null ELSE Some(strftime(t.due_date[1])),
     created_at |-> t.created_at, user_id |-> t.user_id]

\* Category.to_dict
category_to_dict(cat) ==
    [id |-> cat.id, name |-> cat.name, color |-> cat.color, user_id |-> cat.user_id]

\* UniqueViolation with a constraint on the username alone.
UniqueViolation_UsernameOnly(user, rows) ==
    \E u \in rows : u.username = user.username

\* The unique constraints of the users table.
UniqueViolation(user, rows) ==
    \E u \in rows : u.username = user.username \/ u.email = user.email

-----------------------------------------------------------------------------
(* Sessions and responses.                                                 *)

NoSession == <<>>

NoFrame == <<>>

NoBody == <<>>

NoRequest ==
    [client |-> "", op |-> "", id |-> 0, body |-> NoBody, status |-> 0, out |-> <<>>]

\* The request that has just returned, and its response: the status code
\* and the JSON payload (a sequence of dictionaries).
Reply(c, op, id, body, status, out) ==
    [client |-> c, op |-> op, id |-> id, body |-> body, status |-> status, out |-> out]

\* login_required: 'user_id' in session
login_required(c) == "user_id" \in DOMAIN session[c]

\* not data.get(key), the value a string: the key is not carried, or
\* carries "".
Falsy(data, key) == Get(data, key, "") = ""

\* not data.get(key), the value a text.
FalsyText(data, key) == Get(data, key, <<>>) = <<>>

\* not data.get('due_date'): not carried, null or "".
FalsyDate(data) == Get(data, "due_date", Null) \in {Null, Some(<<>>)}

\* The clock when the server starts: the midnight that opens 2024-01-05.
StartNow == Instant(<<2024, 1, 5>>)

Init ==
    /\ users = {}
    /\ categories = {}
    /\ tasks = {}
    /\ session = [c \in Clients |-> NoSession]
    /\ now = StartNow
    /\ pc = [c \in Clients |-> "idle"]
    /\ frame = [c \in Clients |-> NoFrame]
    /\ last = NoRequest

\* The handler of c goes on to its step `to` with the locals f.
Goto(c, to, f) ==
    /\ pc' = [pc EXCEPT ![c] = to]
    /\ frame' = [frame EXCEPT ![c] = f]

\* The handler of c returns.
Return(c, op, id, body, status, out) ==
    /\ last' = Reply(c, op, id, body, status, out)
    /\ pc' = [pc EXCEPT ![c] = "idle"]
    /\ frame' = [frame EXCEPT ![c] = NoFrame]

-----------------------------------------------------------------------------
(* The clock.                                                              *)

Tick ==
    /\ now < StartNow + MaxTicks
    /\ now' = now + 1
    /\ UNCHANGED <<users, categories, tasks, session, pc, frame, last>>

-----------------------------------------------------------------------------
(* Authentication: POST /api/register, /api/login, /api/logout.            *)

Error(msg) == <<[error |-> msg]>>

Message(msg) == <<[message |-> msg]>>

\* register: a field is missing (not carried, or empty).
MissingFields(data) ==
    Falsy(data, "username") \/ Falsy(data, "email") \/ Falsy(data, "password")

\* register: User.query.filter_by(username=...).first() finds a row.
UsernameExists(data) == \E u \in users : u.username = data.username

\* EmailExists never finding a row.
EmailExists_NotLookedUp(data) == FALSE

\* register: User.query.filter_by(email=...).first() finds a row.
EmailExists(data) == \E u \in users : u.email = data.email

\* The registrations that have passed a look-up and not yet inserted.
Registering == {d \in Clients : pc[d] \in {"register_email", "register_insert"}}

\* register, up to the first look-up: the body is validated, the username
\* is looked up.
register(c, data) ==
    /\ pc[c] = "idle"
    /\ IF MissingFields(data)
       THEN Return(c, "register", 0, data, 400, Error("All fields are required"))
       ELSE IF UsernameExists(data)
       THEN Return(c, "register", 0, data, 400, Error("Username already exists"))
       ELSE /\ Cardinality(users) + Cardinality(Registering) < MaxUsers
            /\ Goto(c, "register_email", [data |-> data, user_id |-> 0])
            /\ UNCHANGED last
    /\ UNCHANGED <<users, categories, tasks, session, now>>

\* register, the second look-up: the email.
register_email(c) ==
    /\ pc[c] = "register_email"
    /\ IF EmailExists(frame[c].data)
       THEN Return(c, "register", 0, frame[c].data, 400, Error("Email already exists"))
       ELSE /\ Goto(c, "register_insert", frame[c])
            /\ UNCHANGED last
    /\ UNCHANGED <<users, categories, tasks, session, now>>

\* The row register adds to users.
NewUser(data) ==
    [id |-> NextId(users), username |-> data.username, email |-> data.email,
     password_hash |-> generate_password_hash(data.password)]

\* register, first commit: the user row is inserted.
register_insert(c) ==
    /\ pc[c] = "register_insert"
    /\ ~UniqueViolation(NewUser(frame[c].data), users)
    /\ users' = users \cup {NewUser(frame[c].data)}
    /\ Goto(c, "register_refresh", [frame[c] EXCEPT !.user_id = NextId(users)])
    /\ UNCHANGED <<categories, tasks, session, now, last>>

\* register, user.id of line 76: the commit has expired the attributes of
\* the user, which are read again by the primary key.  No handler changes
\* or deletes a user: the row is there, as inserted.
register_refresh(c) ==
    /\ pc[c] = "register_refresh"
    /\ \E u \in users :
          /\ u.id = frame[c].user_id
          /\ Goto(c, "register_seed", [frame[c] EXCEPT !.user_id = u.id])
    /\ UNCHANGED <<users, categories, tasks, session, now, last>>

\* register, first commit refused by a unique constraint: the handler
\* raises IntegrityError, the transaction is rolled back, the response is 500.
register_insert_conflict(c) ==
    /\ pc[c] = "register_insert"
    /\ UniqueViolation(NewUser(frame[c].data), users)
    /\ Return(c, "register", 0, frame[c].data, 500, <<>>)
    /\ UNCHANGED <<users, categories, tasks, session, now>>

default_categories ==
    << [name |-> "Work", color |-> "#0d6efd"],
       [name |-> "Personal", color |-> "#198754"],
       [name |-> "Shopping", color |-> "#ffc107"],
       [name |-> "Health", color |-> "#dc3545"] >>

\* SeedCategories stopping one short.
SeedCategories_OneShort(user_id) ==
    { [id |-> NextId(categories) + i - 1, name |-> default_categories[i].name,
       color |-> default_categories[i].color, user_id |-> user_id]
      : i \in 1..(Len(default_categories) - 1) }

\* The rows register adds to categories for the user user_id.
SeedCategories(user_id) ==
    { [id |-> NextId(categories) + i - 1, name |-> default_categories[i].name,
       color |-> default_categories[i].color, user_id |-> user_id]
      : i \in 1..Len(default_categories) }

\* register, second commit: the default categories are inserted.
register_seed(c) ==
    /\ pc[c] = "register_seed"
    /\ categories' = categories \cup SeedCategories(frame[c].user_id)
    /\ Goto(c, "register_reply", frame[c])
    /\ UNCHANGED <<users, tasks, session, now, last>>

\* register, the response: user.id and user.username are read again after
\* the second commit, the session is set.
register_reply(c) ==
    /\ pc[c] = "register_reply"
    /\ \E u \in users :
          /\ u.id = frame[c].user_id
          /\ session' = [session EXCEPT ![c] = [user_id |-> u.id, username |-> u.username]]
          /\ Return(c, "register", 0, frame[c].data, 201,
                    <<[message |-> "Registration successful", username |-> u.username]>>)
    /\ UNCHANGED <<users, categories, tasks, now>>

\* Query.first(): the row with the smallest key, None (here NoRow) if none.
NoRow == <<>>

First(rows) ==
    IF rows = {} THEN NoRow
    ELSE CHOOSE r \in rows : \A q \in rows : r.id <= q.id

\* InvalidCredentials without the check of the password.
InvalidCredentials_UserOnly(data) ==
    First({u \in users : u.username = data.username}) = NoRow

\* login: the credentials are refused.
InvalidCredentials(data) ==
    LET user == First({u \in users : u.username = data.username})
    IN  user = NoRow \/ ~check_password(user, data.password)

login(c, data) ==
    /\ pc[c] = "idle"
    /\ IF Falsy(data, "username") \/ Falsy(data, "password")
       THEN /\ last' = Reply(c, "login", 0, data, 400,
                             Error("Username and password are required"))
            /\ UNCHANGED session
       ELSE IF InvalidCredentials(data)
       THEN /\ last' = Reply(c, "login", 0, data, 401, Error("Invalid username or password"))
            /\ UNCHANGED session
       ELSE LET user == First({u \in users : u.username = data.username})
            IN  /\ session' = [session EXCEPT ![c] = [user_id |-> user.id,
                                                      username |-> user.username]]
                /\ last' = Reply(c, "login", 0, data, 200,
                                 <<[message |-> "Login successful",
                                    username |-> user.username]>>)
    /\ UNCHANGED <<users, categories, tasks, now, pc, frame>>

logout(c) ==
    /\ pc[c] = "idle"
    /\ session' = [session EXCEPT ![c] = NoSession]
    /\ last' = Reply(c, "logout", 0, NoBody, 200, Message("Logout successful"))
    /\ UNCHANGED <<users, categories, tasks, now, pc, frame>>

-----------------------------------------------------------------------------
(* Categories: GET, POST /api/categories, DELETE /api/categories/<id>.     *)

\* session['user_id']
current_user(c) == session[c].user_id

Unauthorized == Error("Authentication required")

NotFound == Error("Not Found")

\* What a commit does that finds the row of the handler gone (another
\* request has deleted it since the look-up): the statement changes no row
\* and the ORM either goes on (200) or raises (500).
GoneReplies == {200, 500}

\* The rows of a table as a list in key order.
RECURSIVE ById(_)
ById(rows) ==
    IF rows = {} THEN <<>>
    ELSE LET r == First(rows) IN <<r>> \o ById(rows \ {r})

\* The list xs with f applied to every element.
Map(f(_), xs) == [i \in 1..Len(xs) |-> f(xs[i])]

get_categories(c) ==
    /\ pc[c] = "idle"
    /\ IF ~login_required(c)
       THEN last' = Reply(c, "get_categories", 0, NoBody, 401, Unauthorized)
       ELSE last' = Reply(c, "get_categories", 0, NoBody, 200,
                Map(category_to_dict,
                    ById({cat \in categories : cat.user_id = current_user(c)})))
    /\ UNCHANGED <<users, categories, tasks, session, now, pc, frame>>

\* The row create_category adds.
NewCategory(c, data) ==
    [id |-> NextId(categories), name |-> data.name,
     color |-> Get(data, "color", "#6c757d"),
     user_id |-> current_user(c)]

\* create_category validating the body before the session.
create_category_ValidatesFirst(c, data) ==
    /\ pc[c] = "idle"
    /\ IF Falsy(data, "name")
       THEN /\ Return(c, "create_category", 0, data, 400, Error("Category name is required"))
            /\ UNCHANGED categories
       ELSE IF ~login_required(c)
       THEN /\ Return(c, "create_category", 0, data, 401, Unauthorized)
            /\ UNCHANGED categories
       ELSE /\ Cardinality(categories) < MaxCategories
            /\ categories' = categories \cup {NewCategory(c, data)}
            /\ Goto(c, "create_category_reload", [id |-> NextId(categories), data |-> data])
            /\ UNCHANGED last
    /\ UNCHANGED <<users, tasks, session, now>>

\* create_category, up to the commit: the row is inserted.
create_category(c, data) ==
    /\ pc[c] = "idle"
    /\ IF ~login_required(c)
       THEN /\ Return(c, "create_category", 0, data, 401, Unauthorized)
            /\ UNCHANGED categories
       ELSE IF Falsy(data, "name")
       THEN /\ Return(c, "create_category", 0, data, 400, Error("Category name is required"))
            /\ UNCHANGED categories
       ELSE /\ Cardinality(categories) < MaxCategories
            /\ categories' = categories \cup {NewCategory(c, data)}
            /\ Goto(c, "create_category_reload", [id |-> NextId(categories), data |-> data])
            /\ UNCHANGED last
    /\ UNCHANGED <<users, tasks, session, now>>

\* create_category, the response: the commit has expired the attributes of
\* the row, and to_dict() reads them again by the primary key; when the row
\* is gone by then the handler raises, the response is 500.
create_category_reload(c) ==
    /\ pc[c] = "create_category_reload"
    /\ LET stored == {cat \in categories : cat.id = frame[c].id}
       IN  IF stored # {}
           THEN Return(c, "create_category", 0, frame[c].data, 201,
                       <<category_to_dict(First(stored))>>)
           ELSE Return(c, "create_category", 0, frame[c].data, 500, <<>>)
    /\ UNCHANGED <<users, categories, tasks, session, now>>

\* Category.query.filter_by(id=id, user_id=session['user_id']).first()
OwnCategory(c, id) ==
    First({cat \in categories : cat.id = id /\ cat.user_id = current_user(c)})

\* delete_category, the look-up (first_or_404).
delete_category(c, id) ==
    /\ pc[c] = "idle"
    /\ IF ~login_required(c)
       THEN Return(c, "delete_category", id, NoBody, 401, Unauthorized)
       ELSE IF OwnCategory(c, id) = NoRow
       THEN Return(c, "delete_category", id, NoBody, 404, NotFound)
       ELSE /\ Goto(c, "delete_category_commit", [category |-> OwnCategory(c, id)])
            /\ UNCHANGED last
    /\ UNCHANGED <<users, categories, tasks, session, now>>

\* TasksOfDeleted with the reference of the tasks of the category nulled.
TasksOfDeleted_Nulled(id) ==
    {IF t.category_id = Some(id) THEN [t EXCEPT !.category_id = Null] ELSE t : t \in tasks}

\* The tasks after the commit that deletes the category id.  The mapping of
\* Category and Task is not part of the routes; as the data model is
\* documented, the delete does not cascade and a task of the category keeps
\* its category_id, which then refers to no category.
TasksOfDeleted(id) == tasks

\* delete_category, the delete and the commit: the row of this key goes.
delete_category_commit(c) ==
    /\ pc[c] = "delete_category_commit"
    /\ LET id == frame[c].category.id
       IN  IF \E cat \in categories : cat.id = id
           THEN /\ categories' = {cat \in categories : cat.id # id}
                /\ tasks' = TasksOfDeleted(id)
                /\ Return(c, "delete_category", id, NoBody, 200,
                          Message("Category deleted successfully"))
           ELSE /\ UNCHANGED <<categories, tasks>>
                /\ \E status \in GoneReplies :
                      Return(c, "delete_category", id, NoBody, status,
                             IF status = 200 THEN Message("Category deleted successfully")
                             ELSE <<>>)
    /\ UNCHANGED <<users, session, now>>

-----------------------------------------------------------------------------
(* Tasks: GET, POST /api/tasks and GET, PUT, DELETE /api/tasks/<id>.       *)

\* A filter argument of the query string that is carried and not empty.
Given(args, key) == ~Falsy(args, key)

\* request.args.get('category_id') is carried, not empty, and no integer:
\* int() raises ValueError.
InvalidCategoryId(args) ==
    ~FalsyText(args, "category_id") /\ int(args.category_id) = Null

\* Matches with the filters joined by OR.
Matches_AnyFilter(t, args) ==
    \/ /\ FalsyText(args, "search") /\ ~Given(args, "status") /\ ~Given(args, "priority")
       /\ FalsyText(args, "category_id") /\ Get(args, "overdue", "") # "true"
    \/ ~FalsyText(args, "search")
          /\ (ilike(t.title, args.search) \/ ilike(t.description, args.search))
    \/ Given(args, "status") /\ t.status = args.status
    \/ Given(args, "priority") /\ t.priority = args.priority
    \/ ~FalsyText(args, "category_id") /\ t.category_id = int(args.category_id)
    \/ Get(args, "overdue", "") = "true"
          /\ (t.due_date # Null /\ Instant(t.due_date[1]) < now)

\* The filters of get_tasks; an argument the query string does not carry,
\* or carries empty, imposes nothing; a NULL category_id equals no number
\* and a NULL due date is before no instant.
Matches(t, args) ==
    /\ FalsyText(args, "search")
       \/ ilike(t.title, args.search) \/ ilike(t.description, args.search)
    /\ ~Given(args, "status") \/ t.status = args.status
    /\ ~Given(args, "priority") \/ t.priority = args.priority
    /\ FalsyText(args, "category_id") \/ t.category_id = int(args.category_id)
    /\ Get(args, "overdue", "") # "true"
       \/ (t.due_date # Null /\ Instant(t.due_date[1]) < now)

\* The orders in which order_by(created_at.desc()) can return the rows.
\* (Every list of the rows, each once, that starts with a newest row and
\* goes on with such a list of the others.)
RECURSIVE NewestFirst(_)
NewestFirst(rows) ==
    IF rows = {} THEN {<<>>}
    ELSE UNION { {<<r>> \o xs : xs \in NewestFirst(rows \ {r})}
                 : r \in {r \in rows : \A q \in rows : r.created_at >= q.created_at} }

get_tasks(c, args) ==
    /\ pc[c] = "idle"
    /\ IF ~login_required(c)
       THEN last' = Reply(c, "get_tasks", 0, args, 401, Unauthorized)
       ELSE IF InvalidCategoryId(args)
       THEN last' = Reply(c, "get_tasks", 0, args, 500, <<>>)
       ELSE \E xs \in NewestFirst({t \in tasks :
                                     t.user_id = current_user(c) /\ Matches(t, args)}) :
                last' = Reply(c, "get_tasks", 0, args, 200, Map(task_to_dict, xs))
    /\ UNCHANGED <<users, categories, tasks, session, now, pc, frame>>

\* OwnTask without the owner in the filter.
OwnTask_AnyOwner(c, id) ==
    First({t \in tasks : t.id = id})

\* Task.query.filter_by(id=id, user_id=session['user_id']).first()
OwnTask(c, id) ==
    First({t \in tasks : t.id = id /\ t.user_id = current_user(c)})

get_task(c, id) ==
    /\ pc[c] = "idle"
    /\ IF ~login_required(c)
       THEN last' = Reply(c, "get_task", id, NoBody, 401, Unauthorized)
       ELSE IF OwnTask(c, id) = NoRow
       THEN last' = Reply(c, "get_task", id, NoBody, 404, NotFound)
       ELSE last' = Reply(c, "get_task", id, NoBody, 200, <<task_to_dict(OwnTask(c, id))>>)
    /\ UNCHANGED <<users, categories, tasks, session, now, pc, frame>>

\* data['due_date'] is given and strptime raises ValueError.
InvalidDate(data) ==
    ~FalsyDate(data) /\ strptime(data.due_date[1]) = NoDate

\* The due date a body gives: none when it is null or empty.
DueDate(data) ==
    IF FalsyDate(data) THEN Null ELSE Some(strptime(data.due_date[1]))

\* The row create_task adds.
NewTask(c, data) ==
    [id |-> NextId(tasks),
     title |-> data.title,
     description |-> Get(data, "description", <<>>),
     status |-> Get(data, "status", "pending"),
     priority |-> Get(data, "priority", "medium"),
     category_id |-> Get(data, "category_id", Null),
     due_date |-> DueDate(data),
     user_id |-> current_user(c),
     created_at |-> now]

\* create_task, up to the commit: the row is inserted.
create_task(c, data) ==
    /\ pc[c] = "idle"
    /\ IF ~login_required(c)
       THEN /\ Return(c, "create_task", 0, data, 401, Unauthorized)
            /\ UNCHANGED tasks
       ELSE IF FalsyText(data, "title")
       THEN /\ Return(c, "create_task", 0, data, 400, Error("Title is required"))
            /\ UNCHANGED tasks
       ELSE IF InvalidDate(data)
       THEN /\ Return(c, "create_task", 0, data, 400, Error("Invalid date format"))
            /\ UNCHANGED tasks
       ELSE /\ tasks' = tasks \cup {NewTask(c, data)}
            /\ Goto(c, "create_task_reload", [id |-> NextId(tasks), data |-> data])
            /\ UNCHANGED last
    /\ UNCHANGED <<users, categories, session, now>>

\* create_task, the response: the commit has expired the attributes of the
\* row, and to_dict() reads them again by the primary key, as they are
\* stored by then; when the row is gone the handler raises, the response
\* is 500.
create_task_reload(c) ==
    /\ pc[c] = "create_task_reload"
    /\ LET stored == {t \in tasks : t.id = frame[c].id}
       IN  IF stored # {}
           THEN Return(c, "create_task", 0, frame[c].data, 201,
                       <<task_to_dict(First(stored))>>)
           ELSE Return(c, "create_task", 0, frame[c].data, 500, <<>>)
    /\ UNCHANGED <<users, categories, tasks, session, now>>

\* Assigned replacing the row: a key the body does not carry is reset.
Assigned_Replaces(t, data) ==
    [t EXCEPT
       !.title = Get(data, "title", @),
       !.description = Get(data, "description", <<>>),
       !.status = Get(data, "status", @),
       !.priority = Get(data, "priority", @),
       !.category_id = Get(data, "category_id", @),
       !.due_date = IF Has(data, "due_date") THEN DueDate(data) ELSE @]

\* update_task: the attributes of the row after the assignments, one per
\* key the body carries.
Assigned(t, data) ==
    [t EXCEPT
       !.title = Get(data, "title", @),
       !.description = Get(data, "description", @),
       !.status = Get(data, "status", @),
       !.priority = Get(data, "priority", @),
       !.category_id = Get(data, "category_id", @),
       !.due_date = IF Has(data, "due_date") THEN DueDate(data) ELSE @]

\* The body without its due_date.
WithoutDate(data) == [k \in DOMAIN data \ {"due_date"} |-> data[k]]

\* update_task committing the assignments made before the date is parsed.
update_task_CommitsAssigned(c, id, data) ==
    /\ pc[c] = "idle"
    /\ IF ~login_required(c)
       THEN /\ Return(c, "update_task", id, data, 401, Unauthorized)
            /\ UNCHANGED tasks
       ELSE IF OwnTask(c, id) = NoRow
       THEN /\ Return(c, "update_task", id, data, 404, NotFound)
            /\ UNCHANGED tasks
       ELSE IF InvalidDate(data)
       THEN /\ Return(c, "update_task", id, data, 400, Error("Invalid date format"))
            /\ tasks' = (tasks \ {OwnTask(c, id)})
                        \cup {Assigned(OwnTask(c, id), WithoutDate(data))}
       ELSE /\ Goto(c, "update_task_commit", [task |-> OwnTask(c, id), data |-> data])
            /\ UNCHANGED <<last, tasks>>
    /\ UNCHANGED <<users, categories, session, now>>

\* update_task, the look-up (first_or_404) and the assignments.  On an
\* invalid date the handler returns before the commit: the assignments made
\* so far stay in the request's database session, which is discarded with
\* the request, and the table keeps the row.
update_task(c, id, data) ==
    /\ pc[c] = "idle"
    /\ IF ~login_required(c)
       THEN /\ Return(c, "update_task", id, data, 401, Unauthorized)
            /\ UNCHANGED tasks
       ELSE IF OwnTask(c, id) = NoRow
       THEN /\ Return(c, "update_task", id, data, 404, NotFound)
            /\ UNCHANGED tasks
       ELSE IF InvalidDate(data)
       THEN /\ Return(c, "update_task", id, data, 400, Error("Invalid date format"))
            /\ UNCHANGED tasks
       ELSE /\ Goto(c, "update_task_commit", [task |-> OwnTask(c, id), data |-> data])
            /\ UNCHANGED <<last, tasks>>
    /\ UNCHANGED <<users, categories, session, now>>

\* The columns whose value the assignments have changed from the row as
\* the look-up loaded it: the ones the UPDATE of the commit sets.
Changed(loaded, data) ==
    {k \in DOMAIN loaded : Assigned(loaded, data)[k] # loaded[k]}

\* The row `stored` after the UPDATE.
Flushed(stored, loaded, data) ==
    [k \in DOMAIN stored |->
        IF k \in Changed(loaded, data) THEN Assigned(loaded, data)[k] ELSE stored[k]]

\* update_task, the commit: the row of this key takes the values of the
\* changed columns; no statement is sent when no column has changed.  When
\* the UPDATE finds the row gone the ORM raises (500) or goes on.
update_task_commit(c) ==
    /\ pc[c] = "update_task_commit"
    /\ LET id     == frame[c].task.id
           data   == frame[c].data
           loaded == frame[c].task
           stored == {t \in tasks : t.id = id}
       IN  IF stored # {} \/ Changed(loaded, data) = {}
           THEN /\ tasks' = (tasks \ stored) \cup {Flushed(t, loaded, data) : t \in stored}
                /\ Goto(c, "update_task_reload", frame[c])
                /\ UNCHANGED last
           ELSE /\ UNCHANGED tasks
                /\ \E status \in GoneReplies :
                      IF status = 500
                      THEN Return(c, "update_task", id, data, 500, <<>>)
                      ELSE /\ Goto(c, "update_task_reload", frame[c])
                           /\ UNCHANGED last
    /\ UNCHANGED <<users, categories, session, now>>

\* update_task, the response: the commit has expired the attributes of the
\* row, and to_dict() reads them again by the primary key, as they are
\* stored by then; when the row is gone the handler raises, the response
\* is 500.
update_task_reload(c) ==
    /\ pc[c] = "update_task_reload"
    /\ LET id     == frame[c].task.id
           stored == {t \in tasks : t.id = id}
       IN  IF stored # {}
           THEN Return(c, "update_task", id, frame[c].data, 200,
                       <<task_to_dict(First(stored))>>)
           ELSE Return(c, "update_task", id, frame[c].data, 500, <<>>)
    /\ UNCHANGED <<users, categories, tasks, session, now>>

\* delete_task, the look-up (first_or_404).
delete_task(c, id) ==
    /\ pc[c] = "idle"
    /\ IF ~login_required(c)
       THEN Return(c, "delete_task", id, NoBody, 401, Unauthorized)
       ELSE IF OwnTask(c, id) = NoRow
       THEN Return(c, "delete_task", id, NoBody, 404, NotFound)
       ELSE /\ Goto(c, "delete_task_commit", [task |-> OwnTask(c, id)])
            /\ UNCHANGED last
    /\ UNCHANGED <<users, categories, tasks, session, now>>

\* delete_task, the delete and the commit: the row of this key goes.
delete_task_commit(c) ==
    /\ pc[c] = "delete_task_commit"
    /\ LET id == frame[c].task.id
       IN  IF \E t \in tasks : t.id = id
           THEN /\ tasks' = {t \in tasks : t.id # id}
                /\ Return(c, "delete_task", id, NoBody, 200,
                          Message("Task deleted successfully"))
           ELSE /\ UNCHANGED tasks
                /\ \E status \in GoneReplies :
                      Return(c, "delete_task", id, NoBody, status,
                             IF status = 200 THEN Message("Task deleted successfully")
                             ELSE <<>>)
    /\ UNCHANGED <<users, categories, session, now>>

-----------------------------------------------------------------------------
(* Statistics: GET /api/stats.  One step per query: the count of the       *)
(* tasks, the five counts that follow it, the categories, one count per    *)
(* category; the response goes with the last query.                        *)

\* The counts that follow total_tasks, in the order of the queries.
StatsQueries == <<"completed", "pending", "in_progress", "overdue", "high_priority">>

\* Task.query.filter(...).count() of the query named key.
Count(user_id, key) ==
    Cardinality({t \in tasks :
        /\ t.user_id = user_id
        /\ CASE key = "total_tasks" -> TRUE
             [] key = "completed" -> t.status = "completed"
             [] key = "pending" -> t.status = "pending"
             [] key = "in_progress" -> t.status = "in-progress"
             [] key = "overdue" -> /\ t.due_date # Null
                                   /\ Instant(t.due_date[1]) < now
                                   /\ t.status # "completed"
             [] key = "high_priority" -> t.priority = "high" /\ t.status = "pending"})

\* The dictionary get_stats returns from its locals.
Stats(f) ==
    [total_tasks |-> f.total_tasks,
     completed |-> f.completed,
     pending |-> f.pending,
     in_progress |-> f.in_progress,
     overdue |-> f.overdue,
     high_priority |-> f.high_priority,
     completion_rate |-> IF f.total_tasks > 0 THEN Round1(f.completed, f.total_tasks) ELSE 0,
     tasks_by_category |-> f.tasks_by_category]

\* get_stats, the first query: the number of the tasks of the user.
get_stats(c) ==
    /\ pc[c] = "idle"
    /\ IF ~login_required(c)
       THEN Return(c, "get_stats", 0, NoBody, 401, Unauthorized)
       ELSE /\ Goto(c, "get_stats_count",
                    [user_id |-> current_user(c),
                     total_tasks |-> Count(current_user(c), "total_tasks")])
            /\ UNCHANGED last
    /\ UNCHANGED <<users, categories, tasks, session, now>>

\* get_stats, the next of the five counts: the first whose result is not
\* yet among the locals.
get_stats_count(c) ==
    /\ pc[c] = "get_stats_count"
    /\ LET key == StatsQueries[CHOOSE i \in 1..Len(StatsQueries) :
                                   /\ ~Has(frame[c], StatsQueries[i])
                                   /\ \A j \in 1..(i - 1) : Has(frame[c], StatsQueries[j])]
           f   == frame[c] @@ (key :> Count(frame[c].user_id, key))
       IN  Goto(c, IF key = "high_priority" THEN "get_stats_categories"
                   ELSE "get_stats_count", f)
    /\ UNCHANGED <<users, categories, tasks, session, now, last>>

\* get_stats after a query of the categories part: the next category is
\* counted, or the response is made when none is left.
StatsGoOn(c, f) ==
    IF f.categories = <<>>
    THEN Return(c, "get_stats", 0, NoBody, 200,
                <<Stats(f)>>)
    ELSE /\ Goto(c, "get_stats_category", f)
         /\ UNCHANGED last

\* get_stats, the categories of the user.
get_stats_categories(c) ==
    /\ pc[c] = "get_stats_categories"
    /\ StatsGoOn(c, frame[c] @@
           [categories |-> ById({cat \in categories : cat.user_id = frame[c].user_id}),
            tasks_by_category |-> <<>>])
    /\ UNCHANGED <<users, categories, tasks, session, now>>

\* get_stats, the number of the tasks of the next category.
get_stats_category(c) ==
    /\ pc[c] = "get_stats_category"
    /\ LET cat   == Head(frame[c].categories)
           count == Cardinality({t \in tasks : /\ t.user_id = frame[c].user_id
                                               /\ t.category_id = Some(cat.id)})
       IN  StatsGoOn(c, [frame[c] EXCEPT
               !.categories = Tail(@),
               !.tasks_by_category =
                   IF count > 0
                   THEN Append(@, [name |-> cat.name, count |-> count, color |-> cat.color])
                   ELSE @])
    /\ UNCHANGED <<users, categories, tasks, session, now>>

-----------------------------------------------------------------------------
(* The requests of the model.                                              *)

\* Registrations: complete ones that can collide on the username or on the
\* email, and ones with a field not carried or empty.
RegisterBodies ==
    {[username |-> "alice", email |-> "a@x", password |-> "pw1"],
     [username |-> "bob", email |-> "b@x", password |-> "pw2"],
     [username |-> "bob", email |-> "a@x", password |-> "pw2"],
     [username |-> "alice", email |-> "b@x", password |-> "pw2"],
     [email |-> "a@x", password |-> "pw1"],
     [username |-> "bob", email |-> "", password |-> "pw1"],
     [username |-> "bob", email |-> "b@x"]}

LoginBodies ==
    [username : {"alice", "bob"}, password : {"pw1", "pw2"}]
    \cup {[password |-> "pw1"],
          [username |-> "alice", password |-> ""]}

CategoryBodies ==
    {[color |-> "#ff5733"],
     [name |-> "Errands"]}

CategoryIds == {1, 5}

\* The texts "T1", "T2", "D1".
T1 == <<84, 49>>

T2 == <<84, 50>>

D1 == <<68, 49>>

\* "2024-01-05"
Padded == <<50, 48, 50, 52, 45, 48, 49, 45, 48, 53>>

\* "2024-1-5"
Unpadded == <<50, 48, 50, 52, 45, 49, 45, 53>>

\* "2024-02-30"
NoSuchDay == <<50, 48, 50, 52, 45, 48, 50, 45, 51, 48>>

\* "2024-01-05", the digits of the year fullwidth (U+FF10 to U+FF19).
Fullwidth == <<65298, 65296, 65298, 65300, 45, 48, 49, 45, 48, 53>>

\* The body {} and the query string without arguments.
EmptyTaskBody == <<>>

NoFilter == <<>>

TaskIds == {1, 2}

\* The task bodies of Spec: one of each kind.
FewTaskBodies ==
    {EmptyTaskBody,
     [title |-> T1, category_id |-> Some(1)],
     [status |-> "completed"],
     [title |-> T2, due_date |-> Some(NoSuchDay)]}

\* The requests of SpecTasks: one user, every shape of task body.
OneRegisterBody == {[username |-> "alice", email |-> "a@x", password |-> "pw1"]}

OneLoginBody == {[username |-> "alice", password |-> "pw1"]}

\* due_date: not carried, null, empty, and three dates.
DueDates ==
    {<<>>, [due_date |-> Null], [due_date |-> Some(<<>>)], [due_date |-> Some(Padded)],
     [due_date |-> Some(Unpadded)], [due_date |-> Some(NoSuchDay)]}

\* description, status, priority and category_id, all carried.
AllCarried ==
    [description |-> D1, status |-> "completed", priority |-> "high",
     category_id |-> Some(1)]

CreateBodies ==
    {[title |-> T1] @@ d : d \in DueDates \ {[due_date |-> Some(<<>>)]}}
    \cup {[title |-> T1] @@ AllCarried @@ [due_date |-> Some(Padded)],
          EmptyTaskBody,
          [title |-> <<>>] @@ AllCarried @@ [due_date |-> Some(Padded)],
          AllCarried @@ [due_date |-> Some(NoSuchDay)],
          [title |-> T1, due_date |-> Some(Fullwidth)]}

UpdateBodies ==
    (DueDates \ {[due_date |-> Some(Unpadded)]})
    \cup {[title |-> T2] @@ AllCarried,
          [title |-> T2] @@ AllCarried @@ [due_date |-> Some(NoSuchDay)],
          [status |-> "in-progress"]}

Request(c) ==
    \/ \E data \in RegisterBodies : register(c, data)
    \/ \E data \in LoginBodies : login(c, data)
    \/ logout(c)
    \/ get_categories(c)
    \/ \E data \in CategoryBodies : create_category(c, data)
    \/ \E id \in CategoryIds : delete_category(c, id)
    \/ get_tasks(c, NoFilter)
    \/ \E id \in TaskIds : get_task(c, id)
    \/ \E data \in FewTaskBodies : create_task(c, data) /\ Cardinality(tasks') <= MaxTasks
    \/ \E id \in TaskIds, data \in FewTaskBodies : update_task(c, id, data)
    \/ \E id \in TaskIds : delete_task(c, id)
    \/ get_stats(c)

TaskRequest(c) ==
    \/ \E data \in OneRegisterBody : register(c, data)
    \/ \E data \in OneLoginBody : login(c, data)
    \/ logout(c)
    \/ get_tasks(c, NoFilter)
    \/ \E id \in TaskIds : get_task(c, id)
    \/ \E data \in CreateBodies : create_task(c, data) /\ Cardinality(tasks') <= MaxTasks
    \/ \E id \in TaskIds, data \in UpdateBodies : update_task(c, id, data)
    \/ \E id \in TaskIds : delete_task(c, id)

\* Spec: one browser, its requests served one at a time (a handler starts
\* when pc is "idle"); every handler.
Next ==
    \/ Request("c1")
    \/ register_email("c1")
    \/ register_insert("c1")
    \/ register_refresh("c1")
    \/ register_seed("c1")
    \/ register_reply("c1")
    \/ create_category_reload("c1")
    \/ delete_category_commit("c1")
    \/ create_task_reload("c1")
    \/ update_task_commit("c1")
    \/ update_task_reload("c1")
    \/ delete_task_commit("c1")
    \/ get_stats_count("c1")
    \/ get_stats_categories("c1")
    \/ get_stats_category("c1")

Spec == Init /\ [][Next]_vars

\* SpecTasks: one browser, one user, the clock; the task handlers.
NextTasks ==
    \/ Tick
    \/ TaskRequest("c1")
    \/ register_email("c1")
    \/ register_insert("c1")
    \/ register_refresh("c1")
    \/ register_seed("c1")
    \/ register_reply("c1")
    \/ create_task_reload("c1")
    \/ update_task_commit("c1")
    \/ update_task_reload("c1")
    \/ delete_task_commit("c1")

SpecTasks == Init /\ [][NextTasks]_vars

\* SpecConc: two browsers; the steps of a register interleave with the
\* requests of the other browser.
NextConc ==
    \E c \in Clients :
        \/ \E data \in RegisterBodies : register(c, data)
        \/ register_email(c)
        \/ register_insert(c)
        \/ register_insert_conflict(c)
        \/ register_refresh(c)
        \/ register_seed(c)
        \/ register_reply(c)
        \/ \E data \in LoginBodies : login(c, data)
        \/ get_categories(c)

SpecConc == Init /\ [][NextConc]_vars

\* The requests of SpecList: two users, tasks that differ in status,
\* priority, category, description and due date, and the filters of
\* get_tasks.
TwoRegisterBodies ==
    {[username |-> "alice", email |-> "a@x", password |-> "pw1"],
     [username |-> "bob", email |-> "b@x", password |-> "pw2"]}

TwoLoginBodies ==
    {[username |-> "alice", password |-> "pw1"],
     [username |-> "bob", password |-> "pw2"]}

ListedBodies ==
    {[title |-> T1, due_date |-> Some(Padded)],
     [title |-> T1, priority |-> "high", category_id |-> Some(1)],
     [title |-> T1] @@ AllCarried @@ [due_date |-> Some(Padded)]}

\* The query strings: category_id "1", " 1" (an integer for int()), "0"
\* and "x" (none); search "d" (in "D1" whatever the case), "_1" (the
\* wildcard of LIKE: any character, then "1") and U+0000 (the pattern ends
\* at it, and what is left is "%").
Filters ==
    {NoFilter,
     [status |-> "completed"],
     [status |-> "", priority |-> "high"],
     [status |-> "pending", priority |-> "high", category_id |-> <<32, 49>>],
     [category_id |-> <<49>>],
     [category_id |-> <<48>>],
     [category_id |-> <<120>>],
     [search |-> <<100>>, overdue |-> "false"],
     [search |-> <<95, 49>>, status |-> "pending"],
     [search |-> <<0>>],
     [overdue |-> "true"]}

ListRequest(c) ==
    \/ \E data \in TwoRegisterBodies : register(c, data)
    \/ \E data \in TwoLoginBodies : login(c, data)
    \/ \E data \in ListedBodies : create_task(c, data) /\ Cardinality(tasks') <= MaxListed
    \/ \E args \in Filters : get_tasks(c, args)

\* SpecList: one browser, two users, the clock; creating and listing tasks.
NextList ==
    \/ Tick
    \/ ListRequest("c1")
    \/ register_email("c1")
    \/ register_insert("c1")
    \/ register_refresh("c1")
    \/ register_seed("c1")
    \/ register_reply("c1")
    \/ create_task_reload("c1")

SpecList == Init /\ [][NextList]_vars

\* The requests of SpecStats: two users, tasks of every status, giving the
\* first task a status that is none of the three, the statistics.
CountedBodies ==
    {[title |-> T1, priority |-> "high"],
     [title |-> T1, status |-> "in-progress", category_id |-> Some(1)],
     [title |-> T1] @@ AllCarried}

StatsRequest(c) ==
    \/ \E data \in TwoRegisterBodies : register(c, data)
    \/ \E data \in TwoLoginBodies : login(c, data)
    \/ \E data \in CountedBodies : create_task(c, data) /\ Cardinality(tasks') <= MaxCounted
    \/ update_task(c, 1, [status |-> "archived"])
    \/ get_stats(c)

\* SpecStats: one browser, two users; creating and updating tasks, and the
\* statistics.
NextStats ==
    \/ StatsRequest("c1")
    \/ register_email("c1")
    \/ register_insert("c1")
    \/ register_refresh("c1")
    \/ register_seed("c1")
    \/ register_reply("c1")
    \/ create_task_reload("c1")
    \/ update_task_commit("c1")
    \/ update_task_reload("c1")
    \/ get_stats_count("c1")
    \/ get_stats_categories("c1")
    \/ get_stats_category("c1")

SpecStats == Init /\ [][NextStats]_vars

\* The requests of SpecFields: one user; titles, statuses and priorities
\* inside and outside the documented values.
FieldCreateBodies ==
    {[title |-> T1],
     [title |-> <<>>],
     [title |-> T1, status |-> "completed", priority |-> "low"],
     [title |-> T1, priority |-> "urgent"]}

FieldUpdateBodies ==
    {[status |-> "pending"],
     [status |-> "in-progress"],
     [status |-> "completed"],
     [status |-> "archived"],
     [status |-> "completed", due_date |-> Some(NoSuchDay)],
     [priority |-> "high"],
     [title |-> T2],
     [title |-> <<>>]}

FieldsRequest(c) ==
    \/ \E data \in OneRegisterBody : register(c, data)
    \/ \E data \in OneLoginBody : login(c, data)
    \/ logout(c)
    \/ \E data \in FieldCreateBodies : create_task(c, data) /\ Cardinality(tasks') <= MaxTasks
    \/ \E id \in TaskIds, data \in FieldUpdateBodies : update_task(c, id, data)
    \/ \E id \in TaskIds : delete_task(c, id)

\* SpecFields: one browser, one user; creating and updating tasks.
NextFields ==
    \/ FieldsRequest("c1")
    \/ register_email("c1")
    \/ register_insert("c1")
    \/ register_refresh("c1")
    \/ register_seed("c1")
    \/ register_reply("c1")
    \/ create_task_reload("c1")
    \/ update_task_commit("c1")
    \/ update_task_reload("c1")
    \/ delete_task_commit("c1")

SpecFields == Init /\ [][NextFields]_vars

\* The requests of SpecRace: one user on two browsers, categories that are
\* created and deleted, tasks that are created, completed, un-completed,
\* renamed and deleted, and the statistics.
RacedBody == [title |-> T1, status |-> "completed", category_id |-> Some(1)]

MaxRaced == 2

\* Two updates: one un-completes the task, one carries the status the task
\* was created with and a new title.
RacedUpdates == {[status |-> "pending"], [status |-> "completed", title |-> T2]}

RaceRequest(c) ==
    \/ \E data \in OneRegisterBody : register(c, data)
    \/ \E data \in OneLoginBody : login(c, data)
    \/ create_category(c, [name |-> "Errands"])
    \/ \E id \in CategoryIds : delete_category(c, id)
    \/ create_task(c, RacedBody) /\ Cardinality(tasks') <= MaxRaced
    \/ \E data \in RacedUpdates : update_task(c, 1, data)
    \/ delete_task(c, 1)
    \/ get_stats(c)

\* SpecRace: two browsers; the steps of their handlers interleave.
NextRace ==
    \E c \in Clients :
        \/ RaceRequest(c)
        \/ register_email(c)
        \/ register_insert(c)
        \/ register_insert_conflict(c)
        \/ register_refresh(c)
        \/ register_seed(c)
        \/ register_reply(c)
        \/ create_category_reload(c)
        \/ delete_category_commit(c)
        \/ create_task_reload(c)
        \/ update_task_commit(c)
        \/ update_task_reload(c)
        \/ delete_task_commit(c)
        \/ get_stats_count(c)
        \/ get_stats_categories(c)
        \/ get_stats_category(c)

SpecRace == Init /\ [][NextRace]_vars

-----------------------------------------------------------------------------
(* Properties.                                                             *)

\* The step is the return of a request of the kind op.
Returned(op) == last' # last /\ last'.op = op

\* The browser whose request returns in the step held a session before it.
CallerLoggedIn == "user_id" \in DOMAIN session[last'.client]

\* C1. Cross-user isolation: whatever happened before, a request made under
\* the session of a user never reaches a stored task t of another user:
\* list_tasks does not return t, and get_task, update_task and delete_task
\* on the id of t answer 404 and leave t stored as it was.
C1_CrossUserIsolation ==
    [][ (last' # last /\ CallerLoggedIn) =>
          \A t \in tasks :
             t.user_id # session[last'.client].user_id =>
               /\ last'.op = "get_tasks" =>
                     \A i \in 1..Len(last'.out) : last'.out[i].id # t.id
               /\ (last'.op \in {"get_task", "update_task", "delete_task"}
                   /\ last'.id = t.id) =>
                     (last'.status = 404 /\ t \in tasks') ]_vars

\* A user has asked to change the title of a task another user owns, and a
\* stored task has this id.
C1_Witness ==
    /\ last.op = "update_task" /\ last.status = 404
    /\ Get(last.body, "title", <<>>) = T1
    /\ session[last.client] # NoSession
    /\ \E t \in tasks : /\ t.id = last.id
                        /\ t.user_id # session[last.client].user_id
                        /\ t.status = "pending"

ProtectedOps ==
    {"get_categories", "create_category", "delete_category", "get_tasks", "get_task",
     "create_task", "update_task", "delete_task", "get_stats"}

\* C2. Without a session (never logged in, or logged out) every category,
\* task and statistics request is answered 401, whatever its body or id,
\* and the users, categories and tasks stay as they were.
C2_AuthenticationFirst ==
    [][ (last' # last /\ last'.op \in ProtectedOps /\ ~CallerLoggedIn) =>
          (last'.status = 401 /\ UNCHANGED <<users, categories, tasks>>) ]_vars

\* After a logout, an update with an invalid date of a stored task is
\* answered 401.
C2_Witness ==
    /\ last.op = "update_task" /\ last.status = 401
    /\ Get(last.body, "due_date", Null) = Some(NoSuchDay)
    /\ session[last.client] = NoSession
    /\ \E t \in tasks : t.id = last.id

\* C3. When a register has answered 201 and the browser has sent no request
\* since, the new user owns exactly four categories, named Work, Personal,
\* Shopping and Health, and the session of the caller is the session of the
\* new user.
C3_RegisterSeedsFour ==
    (last.op = "register" /\ last.status = 201 /\ pc[last.client] = "idle") =>
        LET new == {u \in users : u.username = last.body.username}
        IN  /\ Cardinality(new) = 1
            /\ \A u \in new :
                 LET own == {cat \in categories : cat.user_id = u.id}
                 IN  /\ Cardinality(own) = 4
                     /\ {cat.name : cat \in own} = {"Work", "Personal", "Shopping", "Health"}
                     /\ session[last.client] = [user_id |-> u.id, username |-> u.username]

\* The second user has registered, after the first one added a category.
C3_Witness ==
    /\ last.op = "register" /\ last.status = 201
    /\ Cardinality(users) = 2
    /\ Cardinality(categories) > 8

\* A registration that must be refused: a field is missing or empty, or a
\* stored user has its username or its email.
Refusable(data) ==
    \/ Get(data, "username", "") = ""
    \/ Get(data, "email", "") = ""
    \/ Get(data, "password", "") = ""
    \/ \E u \in users : u.username = data.username \/ u.email = data.email

\* C4. A register with a missing field, or with a username or an email a
\* stored user has, is answered 400 after its look-ups: it never goes on to
\* insert, and no user, no category is created and the session stays as it
\* was.
C4_RegisterRefused ==
    [][ \A c \in Clients :
          /\ (pc[c] # "register_insert" /\ pc'[c] = "register_insert") =>
                ~Refusable(frame'[c].data)
          /\ (Returned("register") /\ last'.client = c
              /\ pc[c] \in {"idle", "register_email"} /\ Refusable(last'.body)) =>
                (last'.status = 400 /\ UNCHANGED <<users, categories, session>>) ]_vars

\* A logged-in user registers a new username with the email of a stored
\* user and is refused.
C4_Witness ==
    /\ last.op = "register" /\ last.status = 400
    /\ Has(last.body, "username") /\ Has(last.body, "email")
    /\ ~\E u \in users : u.username = last.body.username
    /\ \E u \in users : u.email = last.body.email
    /\ session[last.client] # NoSession

\* C5. Whatever the interleaving of the registrations, no two stored users
\* share a username and no two share an email.
C5_UniqueUsers ==
    \A u, v \in users :
        u # v => (u.username # v.username /\ u.email # v.email)

\* Two registrations with the same email and different usernames were both
\* looked up before either was inserted; the second insert was refused.
C5_Witness ==
    /\ last.op = "register" /\ last.status = 500
    /\ \E u \in users : u.email = last.body.email /\ u.username # last.body.username

\* C6. A login with an unknown username, or with a password that is not
\* the one of the user of that name, is answered 401 and leaves the session
\* as it was; and a browser gets the session of a user u only from the
\* register that created u or from a login with the username and the
\* password of u.
C6_LoginOnlyWithCredentials ==
    [][ /\ (Returned("login")
            /\ Get(last'.body, "username", "") # ""
            /\ Get(last'.body, "password", "") # ""
            /\ ~\E u \in users :
                   /\ u.username = last'.body.username
                   /\ u.password_hash = generate_password_hash(last'.body.password)) =>
              (last'.status = 401 /\ session' = session)
        /\ \A c \in Clients :
             (session'[c] # session[c] /\ session'[c] # NoSession) =>
               \E u \in users :
                  /\ session'[c] = [user_id |-> u.id, username |-> u.username]
                  /\ last' # last /\ last'.client = c
                  /\ last'.body.username = u.username
                  /\ \/ /\ last'.op = "register" /\ last'.status = 201
                        /\ pc[c] = "register_reply" /\ frame[c].user_id = u.id
                     \/ /\ last'.op = "login" /\ last'.status = 200
                        /\ u.password_hash = generate_password_hash(last'.body.password) ]_vars

\* A logged-in user tries the name of another user with the password of a
\* third party (its own): refused, and still logged in as before.
C6_Witness ==
    /\ last.op = "login" /\ last.status = 401
    /\ session[last.client] # NoSession
    /\ \E u, v \in users :
          /\ u.username = last.body.username
          /\ v.id = session[last.client].user_id
          /\ v # u
          /\ v.password_hash = generate_password_hash(last.body.password)

\* The task dictionary get_task returns to the browser c for the id.
Fetched(c, id) == task_to_dict(OwnTask(c, id))

\* C7. When a create_task has answered 201 and the browser has sent no
\* request since, a get_task of the new id under the same session returns
\* every supplied field as it was supplied (title, description, status,
\* priority, category_id, due_date), and status "pending" and priority
\* "medium" where they were omitted.
C7_CreateThenGet ==
    (last.op = "create_task" /\ last.status = 201 /\ pc[last.client] = "idle") =>
        LET data == last.body
            got  == Fetched(last.client, last.out[1].id)
        IN  /\ got.title = data.title
            /\ Has(data, "description") => got.description = data.description
            /\ got.status = Get(data, "status", "pending")
            /\ got.priority = Get(data, "priority", "medium")
            /\ Has(data, "category_id") => got.category_id = data.category_id
            /\ ~FalsyDate(data) => got.due_date = data.due_date

\* A text of the form YYYY-MM-DD that names a day of the calendar.
IsCalendarDate(s) ==
    /\ Len(s) = 10
    /\ \A i \in {1, 2, 3, 4, 6, 7, 9, 10} : s[i] \in 48..57
    /\ s[5] = 45 /\ s[8] = 45
    /\ LET y == 1000 * (s[1] - 48) + 100 * (s[2] - 48) + 10 * (s[3] - 48) + (s[4] - 48)
           m == 10 * (s[6] - 48) + (s[7] - 48)
           d == 10 * (s[9] - 48) + (s[10] - 48)
       IN  y >= 1 /\ m \in 1..12 /\ d >= 1 /\ d <= DaysInMonth(y, m)

\* C8. A create_task under a session whose title is missing or empty, or
\* whose due_date is given and is not a YYYY-MM-DD calendar date, is
\* answered 400 and adds no task.
C8_CreateRefused ==
    [][ (Returned("create_task") /\ CallerLoggedIn
         /\ \/ Get(last'.body, "title", <<>>) = <<>>
            \/ /\ Get(last'.body, "due_date", Null) \notin {Null, Some(<<>>)}
               /\ ~IsCalendarDate(last'.body.due_date[1])) =>
          (last'.status = 400 /\ tasks' = tasks) ]_vars

\* C9. An update_task answered 200 has set every field the body carries
\* to the value carried, kept every other field and the id, the owner and
\* the creation time, cleared the due date when due_date is carried empty
\* or null, and left the other tasks alone: this is what its commit does to
\* the table, and the response that follows it shows the task so stored.
C9_PartialUpdate ==
    [][ \A c \in Clients :
          /\ (pc[c] = "update_task_commit" /\ pc'[c] = "update_task_reload") =>
                LET data == frame[c].data
                    olds == {t \in tasks : t.id = frame[c].task.id}
                    news == {t \in tasks' : t.id = frame[c].task.id}
                IN  /\ Cardinality(olds) = 1 /\ Cardinality(news) = 1
                    /\ tasks' \ news = tasks \ olds
                    /\ \A old \in olds : \A new \in news :
                         /\ old.user_id = session[c].user_id
                         /\ new.id = old.id
                         /\ new.user_id = old.user_id
                         /\ new.created_at = old.created_at
                         /\ new.title = (IF Has(data, "title") THEN data.title ELSE old.title)
                         /\ new.description = (IF Has(data, "description")
                                               THEN data.description ELSE old.description)
                         /\ new.status = (IF Has(data, "status") THEN data.status
                                          ELSE old.status)
                         /\ new.priority = (IF Has(data, "priority") THEN data.priority
                                            ELSE old.priority)
                         /\ new.category_id = (IF Has(data, "category_id")
                                               THEN data.category_id ELSE old.category_id)
                         /\ new.due_date =
                               (IF ~Has(data, "due_date") THEN old.due_date
                                ELSE IF data.due_date \in {Null, Some(<<>>)} THEN Null
                                ELSE Some(strptime(data.due_date[1])))
          /\ (Returned("update_task") /\ last'.client = c /\ last'.status = 200) =>
                /\ pc[c] = "update_task_reload"
                /\ last'.body = frame[c].data
                /\ tasks' = tasks
                /\ \E t \in tasks : /\ t.id = last'.id
                                    /\ last'.out = <<task_to_dict(t)>> ]_vars

\* Some time after its creation a task with a description and a due date
\* got a new status and nothing else.
C9_Witness ==
    /\ last.op = "update_task" /\ last.status = 200
    /\ last.body = [status |-> "in-progress"]
    /\ \E t \in tasks : /\ t.id = last.id
                        /\ t.description = D1 /\ t.due_date = Some(<<2024, 1, 5>>)
                        /\ t.created_at < now

\* C10. An update_task of an own task whose due_date is given and cannot
\* be parsed is answered 400 and leaves the stored tasks as they were, the
\* fields the same body carries included.
C10_InvalidDateChangesNothing ==
    [][ (Returned("update_task") /\ CallerLoggedIn
         /\ (\E t \in tasks : t.id = last'.id /\ t.user_id = session[last'.client].user_id)
         /\ Get(last'.body, "due_date", Null) \notin {Null, Some(<<>>)}
         /\ strptime(last'.body.due_date[1]) = NoDate) =>
          (last'.status = 400 /\ tasks' = tasks) ]_vars

\* The refused update carried a new title, and the task keeps the old one.
C10_Witness ==
    /\ last.op = "update_task" /\ last.status = 400
    /\ Get(last.body, "title", <<>>) = T2 /\ Get(last.body, "status", "") = "completed"
    /\ \E t \in tasks : t.id = last.id /\ t.title = T1 /\ t.status = "pending"

\* The task satisfies every filter supplied among status, priority and
\* category_id.
Wanted(t, args) ==
    /\ Get(args, "status", "") # "" => t.status = args.status
    /\ Get(args, "priority", "") # "" => t.priority = args.priority
    /\ Get(args, "category_id", <<>>) # <<>> =>
          (int(args.category_id) # Null /\ t.category_id = int(args.category_id))

\* C11. A get_tasks under a session without the search and overdue filters,
\* its category_id (if any) an integer, is answered 200 and returns, once
\* each, exactly the tasks of the caller that satisfy every filter supplied
\* among status, priority and category_id (a filter not carried constrains
\* nothing), a task created later never after one created earlier.
C11_ListFilters ==
    [][ (Returned("get_tasks") /\ CallerLoggedIn
         /\ Get(last'.body, "search", <<>>) = <<>>
         /\ Get(last'.body, "overdue", "") # "true"
         /\ (Get(last'.body, "category_id", <<>>) = <<>>
             \/ int(last'.body.category_id) # Null)) =>
          LET args == last'.body
              out  == last'.out
              want == {t \in tasks : /\ t.user_id = session[last'.client].user_id
                                     /\ Wanted(t, args)}
          IN  /\ last'.status = 200
              /\ Len(out) = Cardinality(want)
              /\ {out[i] : i \in 1..Len(out)} = {task_to_dict(t) : t \in want}
              /\ \A i, j \in 1..Len(out) :
                     i < j => out[i].created_at >= out[j].created_at ]_vars

\* Three filters were supplied; the caller owns a task that satisfies them
\* and an earlier one that fails the status alone, and the list is the
\* first of these.
C11_Witness ==
    /\ last.op = "get_tasks" /\ last.status = 200
    /\ last.body = [status |-> "pending", priority |-> "high", category_id |-> <<32, 49>>]
    /\ Len(last.out) = 1
    /\ session[last.client] # NoSession
    /\ \E t, u \in tasks :
          /\ last.out[1] = task_to_dict(t)
          /\ u.user_id = t.user_id /\ u.status = "completed" /\ u.priority = "high"
          /\ u.category_id = Some(1) /\ u.created_at < t.created_at

\* C12. A get_tasks with overdue = true returns only tasks of the caller
\* that are due strictly before the current time and are not completed.
C12_OverdueNotCompleted ==
    [][ (Returned("get_tasks") /\ last'.status = 200
         /\ Get(last'.body, "overdue", "") = "true") =>
          \A i \in 1..Len(last'.out) :
             \E t \in tasks :
                /\ last'.out[i] = task_to_dict(t)
                /\ t.user_id = session[last'.client].user_id
                /\ t.due_date # Null /\ Instant(t.due_date[1]) < now
                /\ t.status # "completed" ]_vars

\* C13. The statistics of a user count the tasks of this user alone:
\* total_tasks is their number, completed the number of them with status
\* completed, and completion_rate (in tenths of a percent) is 0 when there
\* is none and otherwise the tenth nearest to completed / total * 100.
C13_CompletionRate ==
    [][ (Returned("get_stats") /\ last'.status = 200) =>
          LET st    == last'.out[1]
              mine  == {t \in tasks : t.user_id = session[last'.client].user_id}
              total == Cardinality(mine)
              done  == Cardinality({t \in mine : t.status = "completed"})
              off   == st.completion_rate * total - 1000 * done
          IN  /\ st.total_tasks = total
              /\ st.completed = done
              /\ total = 0 => st.completion_rate = 0
              /\ total > 0 => (2 * off <= total /\ -2 * off <= total) ]_vars

\* Two of the three tasks of the caller are completed, and so is the task
\* of another user: the rate is 66.7.
C13_Witness ==
    /\ last.op = "get_stats" /\ last.status = 200
    /\ last.out[1].total_tasks = 3 /\ last.out[1].completed = 2
    /\ last.out[1].completion_rate = 667
    /\ session[last.client] # NoSession
    /\ \E t \in tasks : /\ t.user_id # session[last.client].user_id
                        /\ t.status = "completed"

\* The sum of the counts of a per-category breakdown.
RECURSIVE SumCounts(_)
SumCounts(rows) ==
    IF rows = <<>> THEN 0 ELSE rows[1].count + SumCounts(Tail(rows))

\* C18. In every get_stats result, total_tasks is the sum of completed,
\* pending and in_progress, high_priority is at most pending, and the
\* counts of tasks_by_category sum to at most total_tasks.
C18_StatsAddUp ==
    (last.op = "get_stats" /\ last.status = 200) =>
        LET st == last.out[1]
        IN  /\ st.total_tasks = st.completed + st.pending + st.in_progress
            /\ st.high_priority <= st.pending
            /\ SumCounts(st.tasks_by_category) <= st.total_tasks

\* C15. Every stored task has a title, and the title is not empty.
C15_TitleNonEmpty ==
    \A t \in tasks : t.title # <<>>

Statuses == {"pending", "in-progress", "completed"}

Priorities == {"low", "medium", "high"}

\* C16. Every stored task has one of the three statuses and one of the
\* three priorities; and an update_task of an own task that carries one
\* of the three statuses and no unreadable date is answered 200 and leaves
\* the task with this status, whatever its status was.
C16_StatusAndPriority ==
    [][ /\ \A t \in tasks' : t.status \in Statuses /\ t.priority \in Priorities
        /\ (Returned("update_task") /\ CallerLoggedIn
            /\ Get(last'.body, "status", "") \in Statuses
            /\ (Get(last'.body, "due_date", Null) \in {Null, Some(<<>>)}
                \/ strptime(last'.body.due_date[1]) # NoDate)) =>
              \A t \in tasks :
                 (t.id = last'.id /\ t.user_id = session[last'.client].user_id) =>
                    /\ last'.status = 200
                    /\ \E n \in tasks' : n.id = t.id /\ n.status = last'.body.status ]_vars

\* C14. A delete_category under a session is answered 404 and changes
\* nothing unless the caller owns a category of this id; otherwise it is
\* answered 200 and removes this category alone.  Either way every task
\* stays as it was, the category_id of the tasks of this category included.
C14_DeleteCategory ==
    [][ (Returned("delete_category") /\ CallerLoggedIn) =>
          LET own == {cat \in categories : /\ cat.id = last'.id
                                           /\ cat.user_id = session[last'.client].user_id}
          IN  /\ tasks' = tasks /\ users' = users
              /\ own = {} => (last'.status = 404 /\ categories' = categories)
              /\ own # {} => (/\ last'.status = 200
                              /\ Cardinality(own) = 1
                              /\ categories' = categories \ own) ]_vars

\* A category was deleted, and a stored task still carries its id.
C14_Witness ==
    /\ last.op = "delete_category" /\ last.status = 200
    /\ ~\E cat \in categories : cat.id = last.id
    /\ \E t \in tasks : t.category_id = Some(last.id)

\* C17. In every committed state, under any interleaving of the requests,
\* every stored user has its four default categories.
C17_RegisterAtomic ==
    \A u \in users :
        {"Work", "Personal", "Shopping", "Health"}
            \subseteq {cat.name : cat \in {x \in categories : x.user_id = u.id}}

=============================================================================
